---- MODULE Spec2Model ----
(***************************************************************************)
(* A model of the RubiksCube class of mofang.py.                           *)
(*                                                                         *)
(* A Python str is modelled as a sequence of one-character strings, so     *)
(* that indexing, slicing, strip, split and join are computed as the code  *)
(* computes them.  A face grid is a function 0..2 -> 0..2 -> colour, with  *)
(* the code's 0-based indices.                                             *)
(***************************************************************************)
EXTENDS Integers, Sequences, FiniteSets, TLC

VARIABLES
    state,   \* RubiksCube.state: face name -> 3x3 grid of colours
    err,     \* outcome of the latest call: "none" or the kind of the exception raised
    log,     \* history: one record per call made so far, oldest first
    mem,     \* the objects behind a cube and its copy (SpecCopy)
    pool     \* the requests in flight in the adapter's thread pool (SpecPool)

vars == <<state, err, log, mem, pool>>

\* what the calls on the one cube leave alone
aux == <<mem, pool>>

----------------------------------------------------------------------------
(* Bounds of the exploration *)

\* calls in a behaviour of SpecRotate, of Spec and of SpecRepeat
MaxRotateCalls == 3
MaxCalls == 2
MaxRepeatCalls == 6

\* the largest steps argument of a scramble call
MaxSteps == 2

\* calls in a behaviour of SpecArgs
MaxArgCalls == 2
MaxAdapterCalls == 2
MaxAdapterSteps == 1
MaxCopyCalls == 4
MaxRequests == 2

----------------------------------------------------------------------------
(* Constants of mofang.py *)

\* CW = 1, CCW = -1
CW == 1
CCW == -1

Idx == 0 .. 2

\* face names, as Python strings
U == <<"U">>
D == <<"D">>
L == <<"L">>
R == <<"R">>
F == <<"F">>
B == <<"B">>

\* _default_colors, in the dict's insertion order
FaceKeys == <<U, D, L, R, F, B>>

Faces == {FaceKeys[i] : i \in 1 .. Len(FaceKeys)}

_default_colors ==
    [f \in Faces |->
        CASE f = U -> "W"
          [] f = D -> "Y"
          [] f = L -> "G"
          [] f = R -> "B"
          [] f = F -> "R"
          [] f = B -> "O"]

Colors == {_default_colors[f] : f \in Faces}

\* RubiksCube.__init__: every face is filled with its default colour
NewCube == [f \in Faces |-> [r \in Idx |-> [c \in Idx |-> _default_colors[f]]]]

----------------------------------------------------------------------------
(* _rotate_face *)

\* face[::-1] and [...][::-1]: the rows in reverse order
ReverseRows(face) == [r \in Idx |-> face[2 - r]]

\* [list(row) for row in zip(*face)]: the transpose
Transpose(face) == [r \in Idx |-> [c \in Idx |-> face[c][r]]]

\* _rotate_face with the counter-clockwise branch lost
_rotate_face_cw_only(face, direction) == Transpose(ReverseRows(face))

\* _rotate_face with the two directions exchanged
_rotate_face_swapped(face, direction) ==
    IF direction = CW
    THEN ReverseRows(Transpose(face))
    ELSE Transpose(ReverseRows(face))

\* the value returned for a valid direction
_rotate_face(face, direction) ==
    IF direction = CW
    THEN Transpose(ReverseRows(face))
    ELSE ReverseRows(Transpose(face))

\* the result of a call _rotate_face(face, direction): the grid it returns and
\* the exception it raises, if any
_rotate_face_call(face, direction) ==
    IF direction \notin {CW, CCW}
    THEN [ret |-> "raised", err |-> "InvalidDirection"]
    ELSE [ret |-> _rotate_face(face, direction), err |-> "none"]

----------------------------------------------------------------------------
(* _cycle_edges and its local helpers *)

\* vals[::-1]
Rev(vals) == [i \in Idx |-> vals[2 - i]]

get_row(s, f, r) == s[f][r]

set_row(s, f, r, vals) == [s EXCEPT ![f][r] = vals]

get_col(s, f, c) == [r \in Idx |-> s[f][r][c]]

\* set_col writing the column before c (Python's index -1 is the last column)
set_col_before(s, f, c, vals) ==
    [s EXCEPT ![f] = [r \in Idx |-> [@[r] EXCEPT ![(c + 2) % 3] = vals[r]]]]

set_col(s, f, c, vals) == [s EXCEPT ![f] = [r \in Idx |-> [@[r] EXCEPT ![c] = vals[r]]]]

\* cycle_U reading each strip when it is needed, after earlier writes
cycle_U_unsnapshotted(s, direction) ==
    IF direction = CW
    THEN LET s1 == set_row(s, F, 0, get_row(s, L, 0))
             s2 == set_row(s1, R, 0, get_row(s1, F, 0))
             s3 == set_row(s2, B, 0, get_row(s2, R, 0))
         IN  set_row(s3, L, 0, get_row(s3, B, 0))
    ELSE LET s1 == set_row(s, F, 0, get_row(s, R, 0))
             s2 == set_row(s1, R, 0, get_row(s1, B, 0))
             s3 == set_row(s2, B, 0, get_row(s2, L, 0))
         IN  set_row(s3, L, 0, get_row(s3, F, 0))

cycle_U(s, direction) ==
    LET a == get_row(s, F, 0)
        b == get_row(s, R, 0)
        c == get_row(s, B, 0)
        d == get_row(s, L, 0)
    IN  IF direction = CW
        THEN set_row(set_row(set_row(set_row(s, F, 0, d), R, 0, a), B, 0, b), L, 0, c)
        ELSE set_row(set_row(set_row(set_row(s, F, 0, b), R, 0, c), B, 0, d), L, 0, a)

\* cycle_D writing L's middle row where it should write L's bottom row
cycle_D_middle_row(s, direction) ==
    LET a == get_row(s, F, 2)
        b == get_row(s, R, 2)
        c == get_row(s, B, 2)
        d == get_row(s, L, 2)
    IN  IF direction = CW
        THEN set_row(set_row(set_row(set_row(s, F, 2, d), R, 2, a), B, 2, b), L, 1, c)
        ELSE set_row(set_row(set_row(set_row(s, F, 2, b), R, 2, c), B, 2, d), L, 1, a)

cycle_D(s, direction) ==
    LET a == get_row(s, F, 2)
        b == get_row(s, R, 2)
        c == get_row(s, B, 2)
        d == get_row(s, L, 2)
    IN  IF direction = CW
        THEN set_row(set_row(set_row(set_row(s, F, 2, d), R, 2, a), B, 2, b), L, 2, c)
        ELSE set_row(set_row(set_row(set_row(s, F, 2, b), R, 2, c), B, 2, d), L, 2, a)

cycle_R(s, direction) ==
    LET a == get_col(s, U, 2)
        b == get_col(s, F, 2)
        c == get_col(s, D, 2)
        d == Rev(get_col(s, B, 0))
    IN  IF direction = CW
        THEN set_col(set_col(set_col(set_col(s, F, 2, a), D, 2, b), B, 0, Rev(c)), U, 2, d)
        ELSE set_col(set_col(set_col(set_col(s, F, 2, c), D, 2, d), B, 0, Rev(a)), U, 2, b)

\* cycle_L with the writes of the two directions exchanged
cycle_L_swapped(s, direction) ==
    LET a == get_col(s, U, 0)
        b == get_col(s, F, 0)
        c == get_col(s, D, 0)
        d == Rev(get_col(s, B, 2))
    IN  IF direction = CW
        THEN set_col(set_col(set_col(set_col(s, B, 2, Rev(c)), D, 0, b), F, 0, a), U, 0, d)
        ELSE set_col(set_col(set_col(set_col(s, B, 2, Rev(a)), D, 0, d), F, 0, c), U, 0, b)

cycle_L(s, direction) ==
    LET a == get_col(s, U, 0)
        b == get_col(s, F, 0)
        c == get_col(s, D, 0)
        d == Rev(get_col(s, B, 2))
    IN  IF direction = CW
        THEN set_col(set_col(set_col(set_col(s, B, 2, Rev(a)), D, 0, d), F, 0, c), U, 0, b)
        ELSE set_col(set_col(set_col(set_col(s, B, 2, Rev(c)), D, 0, b), F, 0, a), U, 0, d)

\* cycle_F with the reversals of the counter-clockwise branch lost
cycle_F_ccw_unreversed(s, direction) ==
    LET a == get_row(s, U, 2)
        b == get_col(s, R, 0)
        c == get_row(s, D, 0)
        d == get_col(s, L, 2)
    IN  IF direction = CW
        THEN set_row(set_col(set_row(set_col(s, R, 0, Rev(a)), D, 0, b), L, 2, Rev(c)), U, 2, d)
        ELSE set_row(set_col(set_row(set_col(s, R, 0, c), D, 0, d), L, 2, a), U, 2, b)

cycle_F(s, direction) ==
    LET a == get_row(s, U, 2)
        b == get_col(s, R, 0)
        c == get_row(s, D, 0)
        d == get_col(s, L, 2)
    IN  IF direction = CW
        THEN set_row(set_col(set_row(set_col(s, R, 0, Rev(a)), D, 0, b), L, 2, Rev(c)), U, 2, d)
        ELSE set_row(set_col(set_row(set_col(s, R, 0, c), D, 0, Rev(d)), L, 2, a), U, 2, Rev(b))

\* cycle_B with the reversal of the strip written to U's top row lost
cycle_B_unreversed(s, direction) ==
    LET a == get_row(s, U, 0)
        b == get_col(s, L, 0)
        c == get_row(s, D, 2)
        d == get_col(s, R, 2)
    IN  IF direction = CW
        THEN set_row(set_col(set_row(set_col(s, L, 0, a), D, 2, Rev(b)), R, 2, c), U, 0, d)
        ELSE set_row(set_col(set_row(set_col(s, L, 0, Rev(c)), D, 2, d), R, 2, Rev(a)), U, 0, b)

\* cycle_B reading U's bottom row where it should read U's top row
cycle_B_wrong_U_row(s, direction) ==
    LET a == get_row(s, U, 2)
        b == get_col(s, L, 0)
        c == get_row(s, D, 2)
        d == get_col(s, R, 2)
    IN  IF direction = CW
        THEN set_row(set_col(set_row(set_col(s, L, 0, a), D, 2, Rev(b)), R, 2, c), U, 0, Rev(d))
        ELSE set_row(set_col(set_row(set_col(s, L, 0, Rev(c)), D, 2, d), R, 2, Rev(a)), U, 0, b)

cycle_B(s, direction) ==
    LET a == get_row(s, U, 0)
        b == get_col(s, L, 0)
        c == get_row(s, D, 2)
        d == get_col(s, R, 2)
    IN  IF direction = CW
        THEN set_row(set_col(set_row(set_col(s, L, 0, a), D, 2, Rev(b)), R, 2, c), U, 0, Rev(d))
        ELSE set_row(set_col(set_row(set_col(s, L, 0, Rev(c)), D, 2, d), R, 2, Rev(a)), U, 0, b)

\* the state left by _cycle_edges(face, direction), face one of the six names
_cycle_edges(s, face, direction) ==
    CASE face = U -> cycle_U(s, direction)
      [] face = D -> cycle_D(s, direction)
      [] face = R -> cycle_R(s, direction)
      [] face = L -> cycle_L(s, direction)
      [] face = F -> cycle_F(s, direction)
      [] face = B -> cycle_B(s, direction)

\* the four strips next to each face, in the order the comments of
\* _cycle_edges give for a clockwise turn ("U -> F -> D -> B -> U")
StripCycle(face) ==
    CASE face = U -> << [face |-> L, kind |-> "row", index |-> 0],
                        [face |-> F, kind |-> "row", index |-> 0],
                        [face |-> R, kind |-> "row", index |-> 0],
                        [face |-> B, kind |-> "row", index |-> 0] >>
      [] face = D -> << [face |-> L, kind |-> "row", index |-> 2],
                        [face |-> F, kind |-> "row", index |-> 2],
                        [face |-> R, kind |-> "row", index |-> 2],
                        [face |-> B, kind |-> "row", index |-> 2] >>
      [] face = R -> << [face |-> U, kind |-> "col", index |-> 2],
                        [face |-> F, kind |-> "col", index |-> 2],
                        [face |-> D, kind |-> "col", index |-> 2],
                        [face |-> B, kind |-> "col", index |-> 0] >>
      [] face = L -> << [face |-> U, kind |-> "col", index |-> 0],
                        [face |-> B, kind |-> "col", index |-> 2],
                        [face |-> D, kind |-> "col", index |-> 0],
                        [face |-> F, kind |-> "col", index |-> 0] >>
      [] face = F -> << [face |-> U, kind |-> "row", index |-> 2],
                        [face |-> R, kind |-> "col", index |-> 0],
                        [face |-> D, kind |-> "row", index |-> 0],
                        [face |-> L, kind |-> "col", index |-> 2] >>
      [] face = B -> << [face |-> U, kind |-> "row", index |-> 0],
                        [face |-> L, kind |-> "col", index |-> 0],
                        [face |-> D, kind |-> "row", index |-> 2],
                        [face |-> R, kind |-> "col", index |-> 2] >>

\* get_row or get_col at a place: the three values of a strip of cube s
ReadStrip(s, place) ==
    IF place.kind = "row"
    THEN get_row(s, place.face, place.index)
    ELSE get_col(s, place.face, place.index)

\* set_row or set_col at a place
WriteStrip(s, place, vals) ==
    IF place.kind = "row"
    THEN set_row(s, place.face, place.index, vals)
    ELSE set_col(s, place.face, place.index, vals)

\* the order in which the four strips are read into a, b, c, d, as places
\* of StripCycle
ReadOrder(face) ==
    CASE face \in {U, D} -> <<2, 3, 4, 1>>
      [] face = L -> <<1, 4, 3, 2>>
      [] OTHER -> <<1, 2, 3, 4>>

\* the order in which the four strips are written, as places of StripCycle:
\* for every face and both directions the strip after the first in the
\* cycle comes first and the first comes last
WriteOrder == <<2, 3, 4, 1>>

----------------------------------------------------------------------------
(* rotate *)

\* rotate without its check of the direction, _rotate_face without its own
rotate_direction_unchecked(s, face, direction) ==
    IF face \notin DOMAIN s
    THEN [state |-> s, err |-> "InvalidFace"]
    ELSE [state |-> _cycle_edges([s EXCEPT ![face] = _rotate_face(s[face], direction)],
                                 face, direction),
          err   |-> "none"]

\* the result of rotate(face, direction): the state it leaves and the
\* exception it raises, if any
rotate(s, face, direction) ==
    IF face \notin DOMAIN s
    THEN [state |-> s, err |-> "InvalidFace"]
    ELSE IF direction \notin {CW, CCW}
    THEN [state |-> s, err |-> "InvalidDirection"]
    ELSE [state |-> _cycle_edges([s EXCEPT ![face] = _rotate_face(s[face], direction)],
                                 face, direction),
          err   |-> "none"]

----------------------------------------------------------------------------
(* Python str operations used by move and scramble *)

IsSpace(ch) == ch = " "

\* sequence.strip(): drop the leading and the trailing whitespace
strip(str) ==
    LET keep == {i \in 1 .. Len(str) : ~IsSpace(str[i])}
    IN  IF keep = {}
        THEN << >>
        ELSE SubSeq(str,
                    CHOOSE i \in keep : \A j \in keep : i <= j,
                    CHOOSE i \in keep : \A j \in keep : j <= i)

RECURSIVE split_from(_, _, _, _)
split_from(str, i, cur, out) ==
    IF i > Len(str)
    THEN IF cur = << >> THEN out ELSE Append(out, cur)
    ELSE IF IsSpace(str[i])
    THEN split_from(str, i + 1, << >>, IF cur = << >> THEN out ELSE Append(out, cur))
    ELSE split_from(str, i + 1, Append(cur, str[i]), out)

\* str.split(): the maximal runs of non-whitespace characters, in order
split(str) == split_from(str, 1, << >>, << >>)

RECURSIVE join_from(_, _)
join_from(seq, i) ==
    IF i > Len(seq) THEN << >>
    ELSE IF i = Len(seq) THEN seq[i]
    ELSE seq[i] \o <<" ">> \o join_from(seq, i + 1)

\* " ".join(seq)
join(seq) == join_from(seq, 1)

----------------------------------------------------------------------------
(* move *)

\* ParseToken with the branch for ' lost
ParseToken_no_prime(tok) ==
    IF tok[Len(tok)] = "2"
    THEN [turns |-> 2, face |-> SubSeq(tok, 1, Len(tok) - 1), dir_sign |-> CW]
    ELSE [turns |-> 1, face |-> <<tok[1]>>, dir_sign |-> CW]

\* ParseToken turning once for a token that ends with 2
ParseToken_two_once(tok) ==
    IF tok[Len(tok)] = "2"
    THEN [turns |-> 1, face |-> SubSeq(tok, 1, Len(tok) - 1), dir_sign |-> CW]
    ELSE IF tok[Len(tok)] = "'"
    THEN [turns |-> 1, face |-> <<tok[1]>>, dir_sign |-> CCW]
    ELSE [turns |-> 1, face |-> <<tok[1]>>, dir_sign |-> CW]

\* the three branches on a token: (turns, face, dir_sign)
ParseToken(tok) ==
    IF tok[Len(tok)] = "2"
    THEN [turns |-> 2, face |-> SubSeq(tok, 1, Len(tok) - 1), dir_sign |-> CW]
    ELSE IF tok[Len(tok)] = "'"
    THEN [turns |-> 1, face |-> <<tok[1]>>, dir_sign |-> CCW]
    ELSE [turns |-> 1, face |-> <<tok[1]>>, dir_sign |-> CW]

\* for _ in range(turns): self.rotate(face, dir_sign)
RECURSIVE rotate_times(_, _, _, _)
rotate_times(s, face, dir_sign, turns) ==
    IF turns = 0
    THEN [state |-> s, err |-> "none"]
    ELSE LET res == rotate(s, face, dir_sign)
         IN  IF res.err # "none"
             THEN res
             ELSE rotate_times(res.state, face, dir_sign, turns - 1)

\* the body of the loop over the tokens, from token i on
RECURSIVE move_from(_, _, _)
move_from(s, tokens, i) ==
    IF i > Len(tokens)
    THEN [state |-> s, err |-> "none"]
    ELSE LET p == ParseToken(tokens[i])
             res == rotate_times(s, p.face, p.dir_sign, p.turns)
         IN  IF res.err # "none"
             THEN res
             ELSE move_from(res.state, tokens, i + 1)

\* move undoing the turns of the earlier tokens when a token fails
move_atomic(s, sequence) ==
    LET res == move_from(s, split(strip(sequence)), 1)
    IN  IF res.err # "none" THEN [state |-> s, err |-> res.err] ELSE res

\* the result of move(sequence): the state it leaves and the exception it
\* raises, if any
move(s, sequence) == move_from(s, split(strip(sequence)), 1)

----------------------------------------------------------------------------
(* is_solved *)

\* is_solved comparing each cell with the first cell of its row
is_solved_by_row(s) ==
    \A face \in DOMAIN s :
        LET grid == s[face]
        IN  ~(\E r \in Idx, c \in Idx : grid[r][c] # grid[r][0])

is_solved(s) ==
    \A face \in DOMAIN s :
        LET grid == s[face]
            center == grid[1][1]
        IN  ~(\E r \in Idx, c \in Idx : grid[r][c] # center)

----------------------------------------------------------------------------
(* Objects: the dict self.state, its six lists of rows and their eighteen
   lists of cells, by identity.  cubes binds a name to the dict of a cube;
   dicts, grids and rows hold the content of each object. *)

NoObjects == [cubes |-> << >>, dicts |-> << >>, grids |-> << >>, rows |-> << >>]

\* the identity a new object gets: the least one no live object has
Fresh(ids) ==
    CHOOSE i \in 0 .. Cardinality(ids) :
        i \notin ids /\ \A j \in 0 .. i - 1 : j \in ids

RECURSIVE FreshIds(_, _)
FreshIds(ids, n) ==
    IF n = 0 THEN << >>
    ELSE LET i == Fresh(ids) IN <<i>> \o FreshIds(ids \cup {i}, n - 1)

\* the cell values of the cube whose dict is d
View(h, d) ==
    [f \in DOMAIN h.dicts[d] |-> [r \in Idx |-> h.rows[h.grids[h.dicts[d][f]][r]]]]

\* the position of a face among the keys of the dict
KeyIndex(face) == CHOOSE k \in 1 .. Len(FaceKeys) : FaceKeys[k] = face

\* a dict of six new lists of three new rows each, holding the values s,
\* bound to a name: what the comprehension of __init__ builds
new_state(h, name, s) ==
    LET d == Fresh(DOMAIN h.dicts)
        g == FreshIds(DOMAIN h.grids, 6)
        w == FreshIds(DOMAIN h.rows, 18)
    IN  [cubes |-> (name :> d) @@ h.cubes,
         dicts |-> (d :> [f \in Faces |-> g[KeyIndex(f)]]) @@ h.dicts,
         grids |-> [k \in {g[j] : j \in 1 .. 6} |->
                        LET j == CHOOSE j \in 1 .. 6 : g[j] = k
                        IN  [r \in Idx |-> w[3 * (j - 1) + r + 1]]] @@ h.grids,
         rows  |-> [k \in {w[j] : j \in 1 .. 18} |->
                        LET j == CHOOSE j \in 1 .. 18 : w[j] = k
                        IN  s[FaceKeys[((j - 1) \div 3) + 1]][(j - 1) % 3]] @@ h.rows]

\* copy with face[:] in place of [row[:] for row in face]: new lists of the
\* rows of the original
copy_shared_rows(h, name, d) ==
    LET n == Fresh(DOMAIN h.dicts)
        g == FreshIds(DOMAIN h.grids, 6)
    IN  [cubes |-> (name :> n) @@ h.cubes,
         dicts |-> (n :> [f \in Faces |-> g[KeyIndex(f)]]) @@ h.dicts,
         grids |-> [k \in {g[j] : j \in 1 .. 6} |->
                        LET j == CHOOSE j \in 1 .. 6 : g[j] = k
                        IN  h.grids[h.dicts[d][FaceKeys[j]]]] @@ h.grids,
         rows  |-> h.rows]

\* {f: [row[:] for row in face] for f, face in self.state.items()}: a new
\* dict, a new list for every face and a new row for every row, with the
\* values of the cube whose dict is d
copy(h, name, d) == new_state(h, name, View(h, d))

\* s[f][r] = vals[:] : a new row takes the place r of the list of face f
heap_set_row(h, d, f, r, vals) ==
    LET w == Fresh(DOMAIN h.rows)
    IN  [h EXCEPT !.rows = (w :> vals) @@ @,
                  !.grids[h.dicts[d][f]][r] = w]

\* s[f][r][c] = v : a cell of an existing row is overwritten
heap_set_cell(h, d, f, r, c, v) ==
    [h EXCEPT !.rows[h.grids[h.dicts[d][f]][r]][c] = v]

\* for r in range(3): s[f][r][c] = vals[r]
heap_set_col(h, d, f, c, vals) ==
    heap_set_cell(heap_set_cell(heap_set_cell(h, d, f, 0, c, vals[0]),
                                d, f, 1, c, vals[1]),
                  d, f, 2, c, vals[2])

\* one write of _cycle_edges: set_row for a row, set_col for a column, with
\* the values t holds there
heap_write_strip(h, d, place, t) ==
    IF place.kind = "row"
    THEN heap_set_row(h, d, place.face, place.index, get_row(t, place.face, place.index))
    ELSE heap_set_col(h, d, place.face, place.index, get_col(t, place.face, place.index))

\* _cycle_edges on objects: the four strips are read first, so the values
\* written are those _cycle_edges computes from the cells before the call;
\* each goes to its strip by set_row or set_col.  The four strips lie on four
\* different faces.
heap_cycle_edges(h, d, face, direction) ==
    LET t == _cycle_edges(View(h, d), face, direction)
        cyc == StripCycle(face)
    IN  heap_write_strip(heap_write_strip(heap_write_strip(heap_write_strip(
            h, d, cyc[WriteOrder[1]], t), d, cyc[WriteOrder[2]], t),
            d, cyc[WriteOrder[3]], t), d, cyc[WriteOrder[4]], t)

\* the objects no name reaches any more are freed
Collect(h) ==
    LET ds == {h.cubes[n] : n \in DOMAIN h.cubes}
        gs == {h.dicts[d][f] : d \in ds, f \in Faces}
        ws == {h.grids[g][r] : g \in gs, r \in Idx}
    IN  [cubes |-> h.cubes,
         dicts |-> [d \in ds |-> h.dicts[d]],
         grids |-> [g \in gs |-> h.grids[g]],
         rows  |-> [w \in ws |-> h.rows[w]]]

\* rotate on the cube whose dict is d, for a valid face and direction:
\* self.state[face] is bound to the new list _rotate_face returns, then the
\* strips are cycled
heap_rotate(h, d, face, direction) ==
    LET grid == _rotate_face(View(h, d)[face], direction)
        g == Fresh(DOMAIN h.grids)
        w == FreshIds(DOMAIN h.rows, 3)
        h2 == [cubes |-> h.cubes,
               dicts |-> [h.dicts EXCEPT ![d][face] = g],
               grids |-> (g :> [r \in Idx |-> w[r + 1]]) @@ h.grids,
               rows  |-> [k \in {w[j] : j \in 1 .. 3} |->
                              LET j == CHOOSE j \in 1 .. 3 : w[j] = k
                              IN  grid[j - 1]] @@ h.rows]
    IN  Collect(heap_cycle_edges(h2, d, face, direction))

----------------------------------------------------------------------------
(* The thread pool that runs the endpoints: threads holds one record for each
   request, gen counts the cubes the global name cube has been bound to, and
   detached holds the cubes it was bound to before, while a request still
   runs on them *)

NoRequests == [threads |-> << >>, gen |-> 0, detached |-> << >>]

----------------------------------------------------------------------------
(* The state machine *)

Init ==
    /\ state = NewCube
    /\ err = "none"
    /\ log = << >>
    /\ mem = NoObjects
    /\ pool = NoRequests

\* a call cube.rotate(face, direction)
Rotate(face, direction) ==
    LET res == rotate(state, face, direction)
    IN  /\ state' = res.state
        /\ err' = res.err
        /\ log' = Append(log, [op |-> "rotate", face |-> face, dir |-> direction,
                               seq |-> << >>, before |-> state, err |-> res.err])
        /\ UNCHANGED aux

\* a call cube.move(sequence)
Move(sequence) ==
    LET res == move(state, sequence)
    IN  /\ state' = res.state
        /\ err' = res.err
        /\ log' = Append(log, [op |-> "move", face |-> << >>, dir |-> 0,
                               seq |-> sequence, before |-> state, err |-> res.err])
        /\ UNCHANGED aux

----------------------------------------------------------------------------
(* scramble *)

\* the faces random.choice picks from with the filter f != prev_face lost
face_choices_unfiltered(faces, prev_face) == faces

\* [f for f in faces if f != prev_face]: the faces random.choice picks from
face_choices(faces, prev_face) == {f \in faces : f # prev_face}

\* ["", "'", "2"]: the modifiers random.choice picks from
mod_choices == {<< >>, <<"'">>, <<"2">>}

\* the lists seq the loop can build in n more steps, after prev_face
RECURSIVE scramble_seqs(_, _, _)
scramble_seqs(faces, prev_face, n) ==
    IF n <= 0
    THEN {<< >>}
    ELSE UNION { {<<face \o mod>> \o rest : rest \in scramble_seqs(faces, face, n - 1)} :
                 face \in face_choices(faces, prev_face), mod \in mod_choices }

\* the strings scramble_str a call scramble(steps) can build
scramble_strs(s, steps) == {join(seq) : seq \in scramble_seqs(DOMAIN s, << >>, steps)}

\* a call cube.scramble(steps): the string is built, applied by move and
\* returned
Scramble(steps) ==
    \E scramble_str \in scramble_strs(state, steps) :
        LET res == move(state, scramble_str)
        IN  /\ state' = res.state
            /\ err' = res.err
            /\ log' = Append(log, [op |-> "scramble", face |-> << >>, dir |-> 0,
                                   seq |-> << >>, before |-> state, err |-> res.err,
                                   steps |-> steps,
                                   ret |-> IF res.err = "none" THEN scramble_str ELSE "raised"])
            /\ UNCHANGED aux

\* a call RubiksCube._rotate_face(face, direction) on a grid
RotateFace(face, direction) ==
    LET res == _rotate_face_call(face, direction)
    IN  /\ state' = state
        /\ err' = res.err
        /\ log' = Append(log, [op |-> "_rotate_face", face |-> << >>, dir |-> direction,
                               seq |-> << >>, before |-> state, err |-> res.err,
                               grid |-> face, ret |-> res.ret])
        /\ UNCHANGED aux

\* a call cube.is_solved()
IsSolved ==
    /\ state' = state
    /\ err' = "none"
    /\ log' = Append(log, [op |-> "is_solved", face |-> << >>, dir |-> 0,
                           seq |-> << >>, before |-> state, err |-> "none",
                           ret |-> is_solved(state)])
    /\ UNCHANGED aux

----------------------------------------------------------------------------
(* A cube and its copy as objects *)

\* cube = RubiksCube()
Construct ==
    /\ DOMAIN mem.cubes = {}
    /\ mem' = new_state(mem, "cube", NewCube)
    /\ state' = View(mem', mem'.cubes["cube"])
    /\ err' = "none"
    /\ log' = Append(log, [op |-> "obj.__init__", face |-> << >>, dir |-> 0,
                           seq |-> << >>, before |-> state, err |-> "none",
                           cube |-> "cube", mem |-> mem])
    /\ UNCHANGED pool

\* new_cube = cube.copy()
Copy ==
    /\ DOMAIN mem.cubes = {"cube"}
    /\ mem' = copy(mem, "new_cube", mem.cubes["cube"])
    /\ state' = View(mem', mem'.cubes["cube"])
    /\ err' = "none"
    /\ log' = Append(log, [op |-> "obj.copy", face |-> << >>, dir |-> 0,
                           seq |-> << >>, before |-> state, err |-> "none",
                           cube |-> "cube", mem |-> mem])
    /\ UNCHANGED pool

\* cube.rotate(face, direction) or new_cube.rotate(face, direction)
ObjRotate(name, face, direction) ==
    /\ name \in DOMAIN mem.cubes
    /\ mem' = heap_rotate(mem, mem.cubes[name], face, direction)
    /\ state' = View(mem', mem'.cubes["cube"])
    /\ err' = "none"
    /\ log' = Append(log, [op |-> "obj.rotate", face |-> face, dir |-> direction,
                           seq |-> << >>, before |-> state, err |-> "none",
                           cube |-> name, mem |-> mem])
    /\ UNCHANGED pool

----------------------------------------------------------------------------
(* The HTTP adapter: one module-level cube, four endpoints *)

\* the steps check of do_scramble with its lower limit moved below zero
steps_rejected_below_zero(steps) == steps < 0 \/ steps > 200

\* steps <= 0 or steps > 200
steps_rejected(steps) == steps <= 0 \/ steps > 200

\* GET /state
get_state ==
    /\ state' = state
    /\ err' = "none"
    /\ log' = Append(log, [op |-> "/state", face |-> << >>, dir |-> 0,
                           seq |-> << >>, before |-> state, err |-> "none",
                           status |-> 200, core |-> FALSE])
    /\ UNCHANGED aux

\* POST /move with body {"move": req_move}
do_move(req_move) ==
    LET move_str == strip(req_move)
        res == move(state, move_str)
    IN  IF move_str = << >>
        THEN /\ state' = state
             /\ err' = "HTTP400"
             /\ log' = Append(log, [op |-> "/move", face |-> << >>, dir |-> 0,
                                    seq |-> req_move, before |-> state,
                                    err |-> "HTTP400", status |-> 400, core |-> FALSE])
             /\ UNCHANGED aux
        ELSE /\ state' = res.state
             /\ err' = (IF res.err = "none" THEN "none" ELSE "HTTP400")
             /\ log' = Append(log, [op |-> "/move", face |-> << >>, dir |-> 0,
                                    seq |-> req_move, before |-> state,
                                    err |-> (IF res.err = "none" THEN "none" ELSE "HTTP400"),
                                    status |-> (IF res.err = "none" THEN 200 ELSE 400),
                                    core |-> TRUE])
             /\ UNCHANGED aux

\* GET /reset: the global is bound to a new cube
reset ==
    /\ state' = NewCube
    /\ err' = "none"
    /\ log' = Append(log, [op |-> "/reset", face |-> << >>, dir |-> 0,
                           seq |-> << >>, before |-> state, err |-> "none",
                           status |-> 200, core |-> TRUE])
    /\ UNCHANGED aux

\* POST /scramble with body {"steps": req_steps}
do_scramble(req_steps) ==
    IF steps_rejected(req_steps)
    THEN /\ state' = state
         /\ err' = "HTTP400"
         /\ log' = Append(log, [op |-> "/scramble", face |-> << >>, dir |-> 0,
                                seq |-> << >>, before |-> state, err |-> "HTTP400",
                                steps |-> req_steps, status |-> 400, core |-> FALSE])
         /\ UNCHANGED aux
    ELSE \E scramble_str \in scramble_strs(state, req_steps) :
            LET res == move(state, scramble_str)
            IN  /\ state' = res.state
                /\ err' = res.err
                /\ log' = Append(log, [op |-> "/scramble", face |-> << >>, dir |-> 0,
                                       seq |-> scramble_str, before |-> state,
                                       err |-> res.err, steps |-> req_steps,
                                       status |-> 200, core |-> TRUE])
                /\ UNCHANGED aux

----------------------------------------------------------------------------
(* The endpoints as threads of the pool.  main.py takes no lock, and the
   endpoints are plain functions, which the framework runs on the threads
   of a pool; a thread may be suspended between any two calls it makes. *)

\* the cube a thread's self is bound to
CubeOf(t) == IF t.gen = pool.gen THEN state ELSE pool.detached[t.gen]

\* the cubes the name cube no longer refers to are freed when no running
\* request is bound to them
Release(threads, detached) ==
    [g \in {g \in DOMAIN detached :
                \E i \in 1 .. Len(threads) :
                    threads[i].pc \notin {"start", "done"} /\ threads[i].gen = g}
        |-> detached[g]]

\* thread i goes on as t2 and leaves its cube as cube2
Commit(i, t2, cube2) ==
    LET threads == [pool.threads EXCEPT ![i] = t2]
        detached == IF t2.gen = pool.gen
                    THEN pool.detached
                    ELSE [pool.detached EXCEPT ![t2.gen] = cube2]
    IN  /\ state' = (IF t2.gen = pool.gen THEN cube2 ELSE state)
        /\ pool' = [threads |-> threads, gen |-> pool.gen,
                    detached |-> Release(threads, detached)]
        /\ UNCHANGED <<err, log, mem>>

\* thread i answers without a call on the cube
Answer(i, status) ==
    /\ pool' = [pool EXCEPT !.threads[i].pc = "done", !.threads[i].status = status]
    /\ UNCHANGED <<state, err, log, mem>>

\* cube.move(sequence) is entered: the name cube is read, the string is
\* stripped and split
EnterMove(t, sequence) ==
    LET tokens == split(strip(sequence))
    IN  IF tokens = << >>
        THEN [t EXCEPT !.gen = pool.gen, !.seq = sequence, !.pc = "done", !.status = 200]
        ELSE [t EXCEPT !.gen = pool.gen, !.seq = sequence, !.tokens = tokens, !.tok = 1,
                       !.left = ParseToken(tokens[1]).turns, !.pc = "call"]

\* after a rotate call has returned: the next turn of the token, the next
\* token, or the answer
AfterTurn(t) ==
    IF t.left > 1
    THEN [t EXCEPT !.left = @ - 1, !.pc = "call", !.k = 0, !.snap = NewCube]
    ELSE IF t.tok < Len(t.tokens)
    THEN [t EXCEPT !.tok = @ + 1, !.left = ParseToken(t.tokens[t.tok + 1]).turns,
                   !.pc = "call", !.k = 0, !.snap = NewCube]
    ELSE [t EXCEPT !.left = 0, !.pc = "done", !.k = 0, !.snap = NewCube, !.status = 200]

\* a request reaches the server and gets a thread
Arrive(op, body) ==
    /\ pool' = [pool EXCEPT !.threads =
                    Append(@, [op |-> op, body |-> body, gen |-> 0, seq |-> << >>,
                               tokens |-> << >>, tok |-> 0, left |-> 0, pc |-> "start",
                               k |-> 0, snap |-> NewCube, status |-> 0])]
    /\ UNCHANGED <<state, err, log, mem>>

\* do_move up to the first rotate call of cube.move
StartMove(i) ==
    LET t == pool.threads[i]
        move_str == strip(t.body)
    IN  /\ t.pc = "start" /\ t.op = "/move"
        /\ IF move_str = << >>
           THEN Answer(i, 400)
           ELSE Commit(i, EnterMove(t, move_str), state)

\* do_scramble up to the first rotate call of cube.scramble
StartScramble(i) ==
    LET t == pool.threads[i]
    IN  /\ t.pc = "start" /\ t.op = "/scramble"
        /\ IF steps_rejected(t.body)
           THEN Answer(i, 400)
           ELSE \E scramble_str \in scramble_strs(state, t.body) :
                    Commit(i, EnterMove(t, scramble_str), state)

\* reset: the name cube is bound to a new cube; requests that run on the old
\* one keep it
StartReset(i) ==
    LET t == pool.threads[i]
        threads == [pool.threads EXCEPT ![i].pc = "done", ![i].status = 200]
    IN  /\ t.pc = "start" /\ t.op = "/reset"
        /\ state' = NewCube
        /\ pool' = [threads |-> threads, gen |-> pool.gen + 1,
                    detached |-> Release(threads, (pool.gen :> state) @@ pool.detached)]
        /\ UNCHANGED <<err, log, mem>>

\* rotate is called: its checks, then
\* self.state[face] = self._rotate_face(self.state[face], direction)
CallRotate(i) ==
    LET t == pool.threads[i]
        p == ParseToken(t.tokens[t.tok])
        cube == CubeOf(t)
    IN  /\ t.pc = "call"
        /\ IF p.face \notin DOMAIN cube \/ p.dir_sign \notin {CW, CCW}
           THEN Commit(i, [t EXCEPT !.pc = "done", !.status = 400], cube)
           ELSE Commit(i, [t EXCEPT !.pc = "read", !.k = 0, !.snap = NewCube],
                       [cube EXCEPT ![p.face] = _rotate_face(@, p.dir_sign)])

\* one of a = get_...(), b = ..., c = ..., d = ... of _cycle_edges: snap
\* keeps the strips read so far
ReadOne(i) ==
    LET t == pool.threads[i]
        p == ParseToken(t.tokens[t.tok])
        place == StripCycle(p.face)[ReadOrder(p.face)[t.k + 1]]
        snap == WriteStrip(t.snap, place, ReadStrip(CubeOf(t), place))
    IN  /\ t.pc = "read"
        /\ Commit(i, IF t.k = 3
                     THEN [t EXCEPT !.pc = "write", !.k = 0, !.snap = snap]
                     ELSE [t EXCEPT !.k = @ + 1, !.snap = snap],
                  CubeOf(t))

\* one of the four set_row or set_col calls of _cycle_edges, with the value
\* _cycle_edges makes of the strips read
WriteOne(i) ==
    LET t == pool.threads[i]
        p == ParseToken(t.tokens[t.tok])
        place == StripCycle(p.face)[WriteOrder[t.k + 1]]
        vals == ReadStrip(_cycle_edges(t.snap, p.face, p.dir_sign), place)
        cube == WriteStrip(CubeOf(t), place, vals)
    IN  /\ t.pc = "write"
        /\ Commit(i, IF t.k = 3 THEN AfterTurn(t) ELSE [t EXCEPT !.k = @ + 1], cube)

----------------------------------------------------------------------------
(* The history *)

\* the state the i-th call left
After(i) == IF i = Len(log) THEN state ELSE log[i + 1].before

\* the i-th call is a successful rotate
IsTurn(i) == log[i].op = "rotate" /\ log[i].err = "none"

\* calls i and j are rotate calls with the same arguments
SameTurn(i, j) ==
    /\ log[i].op = "rotate" /\ log[j].op = "rotate"
    /\ log[i].face = log[j].face
    /\ log[i].dir = log[j].dir

\* the number of calls at the end of the log that are rotate(face, direction)
RECURSIVE TrailingRun(_, _, _)
TrailingRun(face, direction, n) ==
    IF n = 0 THEN 0
    ELSE IF log[n].op = "rotate" /\ log[n].face = face /\ log[n].dir = direction
    THEN 1 + TrailingRun(face, direction, n - 1)
    ELSE 0

----------------------------------------------------------------------------
(* Inputs of the calls *)

Prime == <<"'">>
Two == <<"2">>

\* the move strings of the module's docstrings and self-test
SexyMove == join(<<R, U, R \o Prime, U \o Prime>>)
SexyInverse == join(<<U, R, U \o Prime, R \o Prime>>)
DocMove == join(<<F \o Two, D, L \o Prime>>)
DocInverse == join(<<L, D \o Prime, F \o Two>>)

\* a face letter with no modifier, with ' and with 2
PlainTokens == {f \o m : f \in Faces, m \in {<< >>, Prime, Two}}

\* tokens outside that grammar
OddTokens ==
    { <<"D", "2", "'">>, <<"D", "'", "2">>, <<"R", "x">>, <<"U", "U">>,
      <<"R", "U", "'">>, <<"r">>, <<"X", "2">>, <<"2">> }

MoveInputs ==
    PlainTokens \cup OddTokens \cup
    { SexyMove, SexyInverse, DocMove, DocInverse,
      join(<<R, U, <<"X">>, F>>),
      join(<<R, <<"D", "'", "2">>, U>>),
      join(<<F \o Two, <<"x">>>>),
      <<" ", " ">> \o R \o <<" ", " ">> \o U \o Two \o <<" ">>,
      << >> }

RepeatInputs == {SexyMove, SexyInverse, R, U \o Prime}

----------------------------------------------------------------------------
(* Specifications *)

\* rotate calls only.  A behaviour makes at most MaxRotateCalls calls, except
\* that a run of identical calls may be continued until it is four calls long.
NextRotate ==
    \E face \in Faces, direction \in {CW, CCW} :
        /\ \/ Len(log) < MaxRotateCalls
           \/ TrailingRun(face, direction, Len(log)) \in 1 .. 3
        /\ Rotate(face, direction)

SpecRotate == Init /\ [][NextRotate]_vars

\* the move string that undoes a successful call of move(sequence) made of
\* plain tokens: the tokens in reverse order, ' added or removed, 2 kept
InvertToken(tok) ==
    IF Len(tok) = 1 THEN tok \o Prime
    ELSE IF tok[2] = "'" THEN <<tok[1]>>
    ELSE tok

InverseString(sequence) ==
    LET tokens == split(sequence)
    IN  join([i \in 1 .. Len(tokens) |-> InvertToken(tokens[Len(tokens) + 1 - i])])

IsPlainString(sequence) ==
    \A i \in 1 .. Len(split(sequence)) : split(sequence)[i] \in PlainTokens

\* the latest call was move(S), S made of plain tokens, and sequence undoes it
Undoes(sequence) ==
    /\ Len(log) > 0
    /\ log[Len(log)].op = "move"
    /\ IsPlainString(log[Len(log)].seq)
    /\ sequence = InverseString(log[Len(log)].seq)

\* rotate and move calls.  A behaviour makes at most MaxCalls calls, except
\* that when the last of them is a move call, one more call may undo it.
Next ==
    \/ /\ Len(log) < MaxCalls
       /\ \E face \in Faces, direction \in {CW, CCW} : Rotate(face, direction)
    \/ \E sequence \in MoveInputs :
        /\ Len(log) < MaxCalls \/ (Len(log) = MaxCalls /\ Undoes(sequence))
        /\ Move(sequence)

Spec == Init /\ [][Next]_vars

\* repeated formulas: move calls only, on a few strings
NextRepeat ==
    /\ Len(log) < MaxRepeatCalls
    /\ \E sequence \in RepeatInputs : Move(sequence)

SpecRepeat == Init /\ [][NextRepeat]_vars

----------------------------------------------------------------------------
(* Properties of rotate, checked under SpecRotate *)

\* calls i .. i+3 are four successful rotate calls with the same arguments
FourTurnsAt(i) ==
    /\ i + 3 <= Len(log)
    /\ \A j \in i .. i + 3 : IsTurn(j) /\ SameTurn(i, j)

\* C1: whatever the face, the direction and the state reached before, four
\* consecutive calls rotate(f, d) leave the six grids as they were before the
\* first of the four.
C1_FourTurnsRestore ==
    \A i \in 1 .. Len(log) : FourTurnsAt(i) => After(i + 3) = log[i].before

\* four identical turns were made on a cube an earlier turn had changed
C1_Witness ==
    \E i \in 1 .. Len(log) :
        /\ FourTurnsAt(i)
        /\ log[i].before # NewCube
        /\ After(i) # log[i].before

\* calls i and i+1 are successful rotate calls of one face in opposite directions
TurnAndBackAt(i) ==
    /\ i + 1 <= Len(log)
    /\ IsTurn(i) /\ IsTurn(i + 1)
    /\ log[i].face = log[i + 1].face
    /\ {log[i].dir, log[i + 1].dir} = {CW, CCW}

\* C2: rotate(f, CW) then rotate(f, CCW), and rotate(f, CCW) then
\* rotate(f, CW), leave the six grids as they were before the pair of calls.
C2_TurnAndBackRestore ==
    \A i \in 1 .. Len(log) : TurnAndBackAt(i) => After(i + 1) = log[i].before

\* a turn and its opposite were made on a cube an earlier turn had changed,
\* CCW first
C2_Witness ==
    \E i \in 1 .. Len(log) :
        /\ TurnAndBackAt(i)
        /\ log[i].dir = CCW
        /\ log[i].before # NewCube
        /\ After(i) # log[i].before

\* the number of cells of cube s that hold colour col
CountColor(s, col) ==
    Cardinality({x \in Faces \X Idx \X Idx : s[x[1]][x[2]][x[3]] = col})

\* s has six grids of three rows of three cells
WellShaped(s) ==
    /\ DOMAIN s = Faces
    /\ \A f \in Faces :
        /\ DOMAIN s[f] = Idx
        /\ \A r \in Idx : DOMAIN s[f][r] = Idx /\ \A c \in Idx : s[f][r][c] \in Colors

\* C3: in every state reached by rotate calls each of the six colours is on
\* exactly 9 of the 54 cells, and the state is six grids of 3 rows of 3 cells.
C3_NinePerColor ==
    /\ Cardinality(Colors) = 6
    /\ WellShaped(state)
    /\ \A col \in Colors : CountColor(state, col) = 9

\* turns have left some face with at least three colours on it
C3_Witness ==
    /\ Len(log) >= 2
    /\ \A i \in 1 .. Len(log) : IsTurn(i)
    /\ \E f \in Faces : Cardinality({state[f][r][c] : r \in Idx, c \in Idx}) >= 3

\* C4: in every state reached by rotate calls the centre cell of every face
\* holds that face's solved colour; no rotate call changes a centre cell.
C4_CentersFixed ==
    /\ \A f \in Faces : state[f][1][1] = _default_colors[f]
    /\ \A i \in 1 .. Len(log), f \in Faces : After(i)[f][1][1] = log[i].before[f][1][1]

\* the latest turn changed the grid of its own face and the grid of another
\* face, on a cube an earlier turn had changed
C4_Witness ==
    /\ Len(log) >= 2
    /\ IsTurn(Len(log))
    /\ state[log[Len(log)].face] # log[Len(log)].before[log[Len(log)].face]
    /\ \E f \in Faces \ {log[Len(log)].face} : state[f] # log[Len(log)].before[f]

----------------------------------------------------------------------------
(* Repeated formulas, checked under SpecRepeat *)

\* the first n calls are successful calls move(sequence)
FirstCallsAre(n, sequence) ==
    /\ Len(log) >= n
    /\ \A i \in 1 .. n :
        log[i].op = "move" /\ log[i].seq = sequence /\ log[i].err = "none"

\* C5: on a fresh cube, six calls move("R U R' U'") in a row leave the cube
\* solved, every grid equal to the fresh cube's.
C5_SexySixSolved ==
    FirstCallsAre(6, SexyMove) => After(6) = NewCube /\ is_solved(After(6))

\* the six calls were made, and none of the first five left the cube solved
C5_Witness ==
    /\ FirstCallsAre(6, SexyMove)
    /\ Len(log) = 6
    /\ \A i \in 1 .. 5 : ~is_solved(After(i)) /\ After(i) # NewCube

----------------------------------------------------------------------------
(* Properties of move, checked under Spec *)

\* the tokens of the i-th call, a move call
TokensOf(i) == split(strip(log[i].seq))

\* the i-th call is move(sequence) with a string of exactly one token
IsOneTokenMove(i) == log[i].op = "move" /\ Len(TokensOf(i)) = 1

\* tok holds a 2 and a '
CombinesModifiers(tok) ==
    /\ \E j \in 1 .. Len(tok) : tok[j] = "2"
    /\ \E j \in 1 .. Len(tok) : tok[j] = "'"

\* C6: move raises an error on any token that combines the modifiers 2 and '
\* (such as D2' and D'2) and makes no turn for it: a call whose string is such
\* a token leaves the state as it was.
C6_CombinedModifiersRejected ==
    \A i \in 1 .. Len(log) :
        (IsOneTokenMove(i) /\ CombinesModifiers(TokensOf(i)[1]))
            => (log[i].err # "none" /\ After(i) = log[i].before)

\* C7: move accepts a token only if it is a face letter, alone or followed by
\* exactly one of 2 and '; a call whose string holds any other token raises an
\* error, and when that token is the whole string the state is left as it was.
C7_OnlyGrammarAccepted ==
    \A i \in 1 .. Len(log) :
        (log[i].op = "move" /\ \E j \in 1 .. Len(TokensOf(i)) : TokensOf(i)[j] \notin PlainTokens)
            => /\ log[i].err # "none"
               /\ IsOneTokenMove(i) => After(i) = log[i].before

\* the tokens applied one at a time, each by its own call of move, from token
\* i on, up to the first that fails: the state before the failing token (or
\* after the last token), the error, and the position k of the failing token
\* (0 when none fails)
RECURSIVE TokenByToken(_, _, _)
TokenByToken(s, tokens, i) ==
    IF i > Len(tokens)
    THEN [state |-> s, err |-> "none", k |-> 0]
    ELSE LET res == move(s, tokens[i])
         IN  IF res.err # "none"
             THEN [state |-> s, err |-> res.err, k |-> i]
             ELSE TokenByToken(res.state, tokens, i + 1)

\* C8: move("X2") leaves the state two calls rotate(X, CW) leave, which is the
\* state move("X X") leaves; move("X'") the state of one rotate(X, CCW);
\* move("X") the state of one rotate(X, CW); and a string of several tokens
\* the state of its tokens applied one by one from left to right.
C8_MoveIsRotations ==
    \A i \in 1 .. Len(log) :
        log[i].op = "move" =>
            /\ \A X \in Faces :
                /\ log[i].seq = X \o Two =>
                    /\ After(i) = rotate(rotate(log[i].before, X, CW).state, X, CW).state
                    /\ After(i) = move(log[i].before, join(<<X, X>>)).state
                /\ log[i].seq = X \o Prime => After(i) = rotate(log[i].before, X, CCW).state
                /\ log[i].seq = X => After(i) = rotate(log[i].before, X, CW).state
            /\ (log[i].err = "none" /\ Len(TokensOf(i)) >= 2) =>
                After(i) = TokenByToken(log[i].before, TokensOf(i), 1).state

\* move("F2 D L'") was called just after a call move("X2") that had changed
\* the cube
C8_Witness ==
    /\ Len(log) >= 2
    /\ log[Len(log)].op = "move" /\ log[Len(log)].seq = DocMove
    /\ log[Len(log)].err = "none"
    /\ log[Len(log) - 1].op = "move"
    /\ \E X \in Faces : log[Len(log) - 1].seq = X \o Two
    /\ log[Len(log)].before # log[Len(log) - 1].before
    /\ state # log[Len(log)].before

\* C9: when move fails on its k-th token, the state it leaves is the state the
\* tokens 1 .. k-1 produce from the state before the call: they are not undone,
\* and the k-th and the later tokens change nothing.
C9_FailureKeepsPrefix ==
    \A i \in 1 .. Len(log) :
        (log[i].op = "move" /\ log[i].err # "none") =>
            LET ref == TokenByToken(log[i].before, TokensOf(i), 1)
            IN  /\ ref.k >= 1
                /\ log[i].err = ref.err
                /\ After(i) = ref.state

\* a call of move failed on its third token, with a fourth behind it, after
\* its first two tokens had changed the cube
C9_Witness ==
    \E i \in 1 .. Len(log) :
        /\ log[i].op = "move" /\ log[i].err # "none"
        /\ Len(TokensOf(i)) = 4
        /\ TokenByToken(log[i].before, TokensOf(i), 1).k = 3
        /\ After(i) # log[i].before
        /\ log[i].before # NewCube

\* calls i and i+1 are successful calls move(S) and move(inverse of S), S a
\* string of plain tokens
MoveAndInverseAt(i) ==
    /\ i + 1 <= Len(log)
    /\ log[i].op = "move" /\ log[i + 1].op = "move"
    /\ Len(TokensOf(i)) >= 1
    /\ IsPlainString(log[i].seq)
    /\ log[i + 1].seq = InverseString(log[i].seq)

\* C10: a valid move string S followed by its inverse string (the tokens in
\* reverse order, none and ' exchanged, 2 kept) leaves the state as it was
\* before S; so does "R U R' U'" followed by "U R U' R'" on the solved cube.
C10_InverseRestores ==
    /\ \A i \in 1 .. Len(log) :
        MoveAndInverseAt(i) =>
            /\ log[i].err = "none" /\ log[i + 1].err = "none"
            /\ After(i + 1) = log[i].before
    /\ (/\ Len(log) >= 2
        /\ log[1].op = "move" /\ log[1].seq = SexyMove
        /\ log[2].op = "move" /\ log[2].seq = SexyInverse)
            => is_solved(After(2))

\* a string of three tokens, one of them with 2, and then its inverse were
\* applied to a cube an earlier call had changed
C10_Witness ==
    \E i \in 1 .. Len(log) :
        /\ MoveAndInverseAt(i)
        /\ Len(TokensOf(i)) = 3
        /\ \E j \in 1 .. 3 : TokensOf(i)[j][Len(TokensOf(i)[j])] = "2"
        /\ log[i].before # NewCube
        /\ After(i) # log[i].before

----------------------------------------------------------------------------
(* scramble and is_solved, checked under SpecCore *)

\* One call of rotate or move at most, then one call of scramble at most;
\* is_solved may be called after any other call.
NextCore ==
    \/ /\ Len(log) = 0
       /\ \E face \in Faces, direction \in {CW, CCW} : Rotate(face, direction)
    \/ /\ Len(log) = 0
       /\ \E sequence \in {SexyMove, DocMove} : Move(sequence)
    \/ /\ Len(log) <= 1
       /\ \A i \in 1 .. Len(log) : log[i].op # "scramble"
       /\ \E steps \in 1 .. MaxSteps : Scramble(steps)
    \/ /\ Len(log) > 0
       /\ log[Len(log)].op # "is_solved"
       /\ IsSolved

SpecCore == Init /\ [][NextCore]_vars

\* the i-th call is a call of scramble that returned
IsScramble(i) == log[i].op = "scramble" /\ log[i].err = "none"

\* C11: scramble(steps), steps >= 1, returns a string of exactly steps tokens,
\* each a face letter followed by nothing, by ' or by 2, no two consecutive
\* tokens on the same face; and the state it leaves is the state move leaves
\* when it applies the returned string to the state before the call.
C11_ScrambleString ==
    \A i \in 1 .. Len(log) :
        log[i].op = "scramble" =>
            LET tokens == split(log[i].ret)
            IN  /\ log[i].err = "none"
                /\ Len(tokens) = log[i].steps
                /\ \A j \in 1 .. Len(tokens) : tokens[j] \in PlainTokens
                /\ \A j \in 1 .. Len(tokens) - 1 : tokens[j][1] # tokens[j + 1][1]
                /\ After(i) = move(log[i].before, log[i].ret).state
                /\ After(i) = TokenByToken(log[i].before, tokens, 1).state

\* scramble(2) was called on a cube a turn of B had changed, and returned a
\* string that starts with a turn of B
C11_Witness ==
    \E i \in 2 .. Len(log) :
        /\ IsScramble(i)
        /\ log[i].steps = 2
        /\ log[i - 1].op = "rotate" /\ log[i - 1].face = B
        /\ split(log[i].ret)[1][1] = "B"
        /\ Len(split(log[i].ret)[2]) = 2
        /\ After(i) # log[i].before

\* C13: in every state reached by rotate, move and scramble, is_solved is true
\* exactly when the nine cells of every face equal the face's centre cell,
\* which is exactly when the six grids are those of a fresh cube; a call of
\* is_solved returns that value and changes no cell.
C13_SolvedIsFresh ==
    /\ is_solved(state) <=> (\A f \in Faces, r \in Idx, c \in Idx : state[f][r][c] = state[f][1][1])
    /\ is_solved(state) <=> state = NewCube
    /\ \A i \in 1 .. Len(log) :
        log[i].op = "is_solved" =>
            /\ After(i) = log[i].before
            /\ log[i].ret = (log[i].before = NewCube)

\* is_solved was called and returned FALSE on a cube whose rows are all of one
\* colour each
C13_Witness ==
    /\ Len(log) >= 2
    /\ log[Len(log)].op = "is_solved"
    /\ log[Len(log)].ret = FALSE
    /\ \A f \in Faces, r \in Idx, c \in Idx : state[f][r][c] = state[f][r][0]

----------------------------------------------------------------------------
(* The arguments of rotate and _rotate_face, checked under SpecArgs *)

\* faces and directions passed to rotate: the valid ones and some others
FaceArgs == Faces \cup {<<"X">>, << >>}
DirectionArgs == {CW, CCW, 0}

\* a grid whose nine cells all differ
LabelGrid ==
    [r \in Idx |-> [c \in Idx |->
        <<<<"a", "b", "c">>, <<"d", "e", "f">>, <<"g", "h", "i">>>>[r + 1][c + 1]]]

\* grids passed to _rotate_face: the faces of the cube and LabelGrid
GridArgs == {state[f] : f \in Faces} \cup {LabelGrid}

NextArgs ==
    /\ Len(log) < MaxArgCalls
    /\ \/ \E face \in FaceArgs, direction \in DirectionArgs : Rotate(face, direction)
       \/ \E grid \in GridArgs, direction \in DirectionArgs : RotateFace(grid, direction)

SpecArgs == Init /\ [][NextArgs]_vars

\* C14: rotate with a face that is none of the six fails with the invalid-face
\* error, rotate with one of the six and a direction other than CW and CCW
\* fails with the invalid-direction error, and both leave the six grids as
\* they were.
C14_RotateValidates ==
    \A i \in 1 .. Len(log) :
        log[i].op = "rotate" =>
            /\ log[i].face \notin Faces =>
                (log[i].err = "InvalidFace" /\ After(i) = log[i].before)
            /\ (log[i].face \in Faces /\ log[i].dir \notin {CW, CCW}) =>
                (log[i].err = "InvalidDirection" /\ After(i) = log[i].before)
            /\ (log[i].face \in Faces /\ log[i].dir \in {CW, CCW}) => log[i].err = "none"

\* a turn changed the cube, then rotate was called with a face of the cube
\* and the direction 0
C14_Witness ==
    /\ Len(log) = 2
    /\ IsTurn(1)
    /\ log[2].op = "rotate" /\ log[2].face \in Faces /\ log[2].dir = 0
    /\ log[2].before # NewCube

\* C16: _rotate_face(grid, CW) returns a grid whose cell (r, c) is the cell
\* (2-c, r) of the input, _rotate_face(grid, CCW) one whose cell (r, c) is the
\* cell (c, 2-r) of the input, any other direction raises the
\* invalid-direction error, and the input grid is left as it was; rotate
\* gives the turned face the grid so computed.
C16_FaceRotation ==
    \A i \in 1 .. Len(log) :
        /\ log[i].op = "_rotate_face" =>
            /\ After(i) = log[i].before
            /\ log[i].dir = CW =>
                /\ log[i].err = "none"
                /\ \A r \in Idx, c \in Idx : log[i].ret[r][c] = log[i].grid[2 - c][r]
            /\ log[i].dir = CCW =>
                /\ log[i].err = "none"
                /\ \A r \in Idx, c \in Idx : log[i].ret[r][c] = log[i].grid[c][2 - r]
            /\ log[i].dir \notin {CW, CCW} => log[i].err = "InvalidDirection"
        /\ IsTurn(i) =>
            \A r \in Idx, c \in Idx :
                After(i)[log[i].face][r][c] =
                    IF log[i].dir = CW
                    THEN log[i].before[log[i].face][2 - c][r]
                    ELSE log[i].before[log[i].face][c][2 - r]

\* _rotate_face was called counter-clockwise on the grid of nine different
\* cells, and then clockwise on a face of the cube
C16_Witness ==
    /\ Len(log) = 2
    /\ log[1].op = "_rotate_face" /\ log[1].grid = LabelGrid /\ log[1].dir = CCW
    /\ log[2].op = "_rotate_face" /\ log[2].grid = state[U] /\ log[2].dir = CW
    /\ log[1].ret # LabelGrid

----------------------------------------------------------------------------
(* The cells a turn changes, checked under SpecRotate *)

\* the face across the cube
Opposite(face) ==
    CASE face = U -> D [] face = D -> U
      [] face = L -> R [] face = R -> L
      [] face = F -> B [] face = B -> F

\* the cells of a strip, as <<row, column>> pairs
StripCells(kind, index) ==
    IF kind = "row" THEN {<<index, c>> : c \in Idx} ELSE {<<r, index>> : r \in Idx}

\* the cells of face g that differ between cube s and cube t
ChangedCells(s, t, g) == {x \in Idx \X Idx : s[g][x[1]][x[2]] # t[g][x[1]][x[2]]}

SourceStrip(k, direction) ==
    IF direction = CW
    THEN (IF k = 1 THEN 4 ELSE k - 1)
    ELSE (IF k = 4 THEN 1 ELSE k + 1)

\* C18: the four strips next to a face have a fixed cyclic order; after
\* rotate(f, CW) each strip holds the values the strip before it in the cycle
\* held before the call, after rotate(f, CCW) the values of the strip after
\* it, in the same or in reversed order: every value written was read before
\* the first write.
C18_StripsCycle ==
    \A i \in 1 .. Len(log) :
        IsTurn(i) =>
            \A k \in 1 .. 4 :
                LET cyc == StripCycle(log[i].face)
                    old == ReadStrip(log[i].before, cyc[SourceStrip(k, log[i].dir)])
                    new == ReadStrip(After(i), cyc[k])
                IN  new = old \/ new = Rev(old)

\* a clockwise and a counter-clockwise turn each moved a strip whose ends
\* differ, one of them arriving reversed
C18_Witness ==
    /\ \E i \in 2 .. Len(log), k \in 1 .. 4 :
        /\ IsTurn(i) /\ log[i].dir = CW
        /\ LET old == ReadStrip(log[i].before, StripCycle(log[i].face)[SourceStrip(k, CW)])
           IN  old # Rev(old) /\ ReadStrip(After(i), StripCycle(log[i].face)[k]) = Rev(old)
    /\ \E i \in 2 .. Len(log), k \in 1 .. 4 :
        /\ IsTurn(i) /\ log[i].dir = CCW
        /\ LET old == ReadStrip(log[i].before, StripCycle(log[i].face)[SourceStrip(k, CCW)])
           IN  old # Rev(old) /\ ReadStrip(After(i), StripCycle(log[i].face)[k]) = old

\* calls i and i+1 are successful turns of two opposite faces
OppositeTurnsAt(i) ==
    /\ i + 1 <= Len(log)
    /\ IsTurn(i) /\ IsTurn(i + 1)
    /\ log[i + 1].face = Opposite(log[i].face)

\* C20: turns of opposite faces commute: rotate(X, d1) then rotate(Y, d2)
\* leaves the six grids that rotate(Y, d2) then rotate(X, d1) leaves, for
\* (X, Y) = (U, D), (L, R), (F, B) and all directions.
C20_OppositeCommute ==
    \A i \in 1 .. Len(log) :
        OppositeTurnsAt(i) =>
            After(i + 1) =
                rotate(rotate(log[i].before, log[i + 1].face, log[i + 1].dir).state,
                       log[i].face, log[i].dir).state

\* two opposite faces were turned one after the other on a cube an earlier
\* turn of a third face had changed
C20_Witness ==
    \E i \in 2 .. Len(log) :
        /\ OppositeTurnsAt(i)
        /\ IsTurn(i - 1)
        /\ log[i - 1].face \notin {log[i].face, log[i + 1].face}
        /\ After(i) # log[i].before
        /\ After(i + 1) # After(i)

----------------------------------------------------------------------------
(* The adapter's checks, checked under SpecAdapter: requests handled one
   after the other *)

\* bodies of /move: blank ones, valid ones, one with an invalid token
MoveBodies ==
    { << >>, <<" ">>, <<" ", " ", " ">>, SexyMove, DocMove,
      <<" ">> \o R \o <<" ">>, U \o Two, <<"X">>, join(<<F, <<"X">>>>) }

\* steps of /scramble: the accepted ones up to MaxAdapterSteps, and rejected
\* ones on both sides of the range
StepsBodies == (1 .. MaxAdapterSteps) \cup {-1, 0, 201, 202}

NextAdapter ==
    /\ Len(log) < MaxAdapterCalls
    /\ \/ get_state
       \/ \E req_move \in MoveBodies : do_move(req_move)
       \/ reset
       \/ /\ \A i \in 1 .. Len(log) : ~ (log[i].op = "/scramble" /\ log[i].core)
          /\ \E req_steps \in StepsBodies : do_scramble(req_steps)

SpecAdapter == Init /\ [][NextAdapter]_vars

\* C19: a /scramble whose steps lie outside 1..200 and a /move whose trimmed
\* string is empty are answered 400 without a call of the core and leave the
\* shared cube as it was; after /reset the shared cube is solved, whatever it
\* was before.
C19_AdapterRejects ==
    \A i \in 1 .. Len(log) :
        /\ (log[i].op = "/scramble" /\ log[i].steps \notin 1 .. 200) =>
                (log[i].status = 400 /\ ~ log[i].core /\ After(i) = log[i].before)
        /\ (log[i].op = "/move" /\ strip(log[i].seq) = << >>) =>
                (log[i].status = 400 /\ ~ log[i].core /\ After(i) = log[i].before)
        /\ log[i].op = "/reset" => (After(i) = NewCube /\ is_solved(After(i)))

\* on a cube an earlier request had changed, a /scramble with steps 201 was
\* answered 400
C19_Witness ==
    \E i \in 2 .. Len(log) :
        /\ log[i].before # NewCube
        /\ log[i].op = "/scramble" /\ log[i].steps = 201 /\ log[i].status = 400

----------------------------------------------------------------------------
(* copy, checked under SpecCopy: a cube is built, turned, copied, and the
   cube and its copy are turned *)

NextCopy ==
    /\ Len(log) < MaxCopyCalls
    /\ \/ Construct
       \/ Copy
       \/ \E name \in {"cube", "new_cube"}, face \in Faces, direction \in {CW, CCW} :
            ObjRotate(name, face, direction)

SpecCopy == Init /\ [][NextCopy]_vars

\* the objects the i-th call left
MemAfter(i) == IF i = Len(log) THEN mem ELSE log[i + 1].mem

\* the cells of the named cube among the objects h
Cells(h, name) == View(h, h.cubes[name])

\* the lists of rows and the rows the named cube reaches
Storage(h, name) ==
    LET gs == {h.dicts[h.cubes[name]][f] : f \in Faces}
    IN  [grids |-> gs, rows |-> {h.grids[g][r] : g \in gs, r \in Idx}]

OtherCube(name) == IF name = "cube" THEN "new_cube" ELSE "cube"

\* C12: copy() returns a cube whose six grids equal the original's cell for
\* cell; afterwards no rotate on the copy changes a cell of the original and
\* no rotate on the original changes a cell of the copy; the two cubes share
\* no dict, no list of rows and no row.
C12_CopyIndependent ==
    /\ \A i \in 1 .. Len(log) :
        /\ log[i].op = "obj.copy" =>
                /\ Cells(MemAfter(i), "new_cube") = Cells(log[i].mem, "cube")
                /\ Cells(MemAfter(i), "cube") = Cells(log[i].mem, "cube")
        /\ (log[i].op = "obj.rotate" /\ OtherCube(log[i].cube) \in DOMAIN log[i].mem.cubes) =>
                /\ Cells(MemAfter(i), OtherCube(log[i].cube))
                        = Cells(log[i].mem, OtherCube(log[i].cube))
                /\ Cells(MemAfter(i), log[i].cube)
                        = rotate(Cells(log[i].mem, log[i].cube), log[i].face, log[i].dir).state
    /\ DOMAIN mem.cubes = {"cube", "new_cube"} =>
        /\ mem.cubes["cube"] # mem.cubes["new_cube"]
        /\ Storage(mem, "cube").grids \cap Storage(mem, "new_cube").grids = {}
        /\ Storage(mem, "cube").rows \cap Storage(mem, "new_cube").rows = {}

\* a changed cube was copied and then the copy, or the original, was turned
\* about F, which writes columns of rows in place and replaces rows
C12_Witness ==
    \E i \in 2 .. Len(log) :
        /\ log[i].op = "obj.copy"
        /\ Cells(log[i].mem, "cube") # NewCube
        /\ i < Len(log)
        /\ log[i + 1].op = "obj.rotate" /\ log[i + 1].face = F
        /\ Cells(mem, "cube") # Cells(mem, "new_cube")

\* every rotate on objects leaves the cells rotate computes
ObjRotateIsRotate ==
    \A i \in 1 .. Len(log) :
        log[i].op = "obj.rotate" =>
            Cells(MemAfter(i), log[i].cube)
                = rotate(Cells(log[i].mem, log[i].cube), log[i].face, log[i].dir).state

----------------------------------------------------------------------------
(* Requests handled at the same time, checked under SpecPool *)

\* the requests sent: /move with a turn or with a blank body, /reset, and
\* /scramble with accepted and with rejected steps
PoolRequests ==
    { <<"/move", R>>, <<"/move", U \o Prime>>, <<"/move", <<" ">>>>,
      <<"/reset", << >>>>, <<"/scramble", 0>> }
    \cup {<<"/scramble", steps>> : steps \in 1 .. MaxAdapterSteps}

NextPool ==
    \/ /\ Len(pool.threads) < MaxRequests
       /\ \E request \in PoolRequests :
            /\ request[1] = "/scramble" =>
                    \A i \in 1 .. Len(pool.threads) : pool.threads[i].op # "/scramble"
            /\ Arrive(request[1], request[2])
    \/ \E i \in 1 .. Len(pool.threads) :
        \/ StartMove(i)
        \/ StartScramble(i)
        \/ StartReset(i)
        \/ CallRotate(i)
        \/ ReadOne(i)
        \/ WriteOne(i)

SpecPool == Init /\ [][NextPool]_vars

\* what a finished request does to cube s when it runs alone, with the
\* string it drew if it is a /scramble
Alone(t, s) ==
    IF t.op = "/reset" THEN NewCube
    ELSE IF t.status # 200 /\ t.seq = << >> THEN s
    ELSE move(s, t.seq).state

\* the cubes the requests of the set left leave when they run one after the
\* other on cube s, in every order
RECURSIVE SerialOutcomes(_, _)
SerialOutcomes(s, left) ==
    IF left = {} THEN {s}
    ELSE UNION {SerialOutcomes(Alone(pool.threads[i], s), left \ {i}) : i \in left}

AllAnswered == \A i \in 1 .. Len(pool.threads) : pool.threads[i].pc = "done"

\* C15: requests on the shared cube are serialized: when /move, /scramble
\* and /reset requests are handled at the same time, and all are answered,
\* the shared cube is what running them one after the other in some order
\* leaves, and every colour is on 9 cells.
C15_RequestsSerialized ==
    AllAnswered =>
        /\ state \in SerialOutcomes(NewCube, 1 .. Len(pool.threads))
        /\ \A col \in Colors : CountColor(state, col) = 9

====
